---- MODULE Spec2Model ----
(***************************************************************************)
(* RESTResource (modules/admin/rest.py): the cherrypy controller mixin     *)
(* that walks a virtual path down a tree of resource controllers and       *)
(* dispatches the HTTP method to a handler.                                *)
(*                                                                         *)
(* The controllers are the two of the module's own sample application      *)
(* (UserController with the child 'posts' -> PostController), in five      *)
(* class configurations that exercise the extension points of the mixin:   *)
(* REST_map, REST_children, the expose_resource marker, REST_instantiate   *)
(* and REST_create.                                                        *)
(* A request is a process: default() is cut into steps at the accesses to  *)
(* state shared between requests (the parent field of a child controller   *)
(* and the application's resources).                                       *)
(***************************************************************************)
EXTENDS Integers, Sequences, FiniteSets, TLC

\* longest virtual path a request carries
MaxPathLen == 3

Slots == {"r1", "r2"}

Methods == {"GET", "POST", "PUT", "DELETE", "PATCH"}

Controllers == {"UserController", "PostController"}

Root == "UserController"

NoCtl == "-"

NoName == "-"

\* path segments in an id position, and in a name position
UserIds == {"bob", "joe"}

PostIds == {"p1"}

Names == {"posts", "friends", "extra_action", "default", "REST_map", "nosuch"}

\* request parameters, as the set of their keys
ParamSets == {{}, {"title"}}

Configs == {"sample", "mapped", "bare", "strict", "nested"}

\* what getattr(self, name) finds on a controller
Kinds == {"absent", "falsy", "unmarked", "markedFalse", "exposed"}

\* exceptions a handler of the application may raise
HandlerRaises == {"TypeError", "HTTPRedirect", "HTTPError400"}

NoneRes == [ctl |-> "-", id |-> "-", owner |-> "-"]

NoParent == [ctl |-> "-", id |-> "unset", owner |-> "-"]

Resource(ctl, id, owner) == [ctl |-> ctl, id |-> id, owner |-> owner]

NoValue == [ctl |-> "-", name |-> "-", res |-> NoneRes, rest |-> <<>>, params |-> {}]

\* the value of the builtin list() called without arguments
EmptyList == [ctl |-> "builtins", name |-> "list", res |-> NoneRes, rest |-> <<>>, params |-> {}]

\* the value a handler returns: it identifies the invocation
HandlerValue(ctl, name, res, rest, params) ==
  [ctl |-> ctl, name |-> name, res |-> res, rest |-> rest, params |-> params]

Pending == [kind |-> "pending", exc |-> "-", value |-> NoValue]

Returned(v) == [kind |-> "return", exc |-> "-", value |-> v]

Raised(e) ==
  [kind |-> IF e = "NotFound" THEN "NotFound"
            ELSE IF e = "HTTPError400" THEN "BadRequest" ELSE "error",
   exc |-> e, value |-> NoValue]

\* one call made while a request is served: a hook, a handler, the listing
\* fallback, or the default() of a child. seen is the parent field of the
\* controller as the call finds it, by the request that wrote it, up the
\* resource this request resolved one level up, how the way the call ended
Event(op, ctl, name, arg, res, rest, params, seen, up, by, how) ==
  [op |-> op, ctl |-> ctl, name |-> name, arg |-> arg, res |-> res, rest |-> rest,
   params |-> params, seen |-> seen, up |-> up, by |-> by, how |-> how]

VARIABLES cfg, store, parent, writer, req, earlier

vars == <<cfg, store, parent, writer, req, earlier>>


(***************************************************************************)
(* Class configuration of the controllers                                  *)
(***************************************************************************)

REST_defaults_swapped(m) ==
  CASE m = "DELETE" -> "delete"
    [] m = "GET" -> "index"
    [] m = "POST" -> "update"
    [] m = "PUT" -> "add"
    [] OTHER -> NoName

\* RESTResource.REST_defaults
REST_defaults(m) ==
  CASE m = "DELETE" -> "delete"
    [] m = "GET" -> "index"
    [] m = "POST" -> "add"
    [] m = "PUT" -> "update"
    [] OTHER -> NoName

\* REST_map of a controller class: empty unless the class overrides it
REST_map(c, ctl, m) ==
  IF c = "mapped" /\ ctl = "UserController"
  THEN CASE m = "GET" -> "show"
         [] m = "DELETE" -> "remove"
         [] m = "PATCH" -> "touch"
         [] OTHER -> NoName
  ELSE IF c = "mapped" /\ ctl = "PostController"
  THEN CASE m = "PUT" -> "show"
         [] m = "GET" -> "remove"
         [] OTHER -> NoName
  ELSE NoName

\* REST_children of a controller class: the sample's {'posts': PostController()},
\* and in "nested" also the UserController instance under 'friends', its own child
REST_children(c, ctl, a) ==
  IF ctl = "UserController" /\ a = "posts" THEN "PostController"
  ELSE IF c = "nested" /\ ctl = "UserController" /\ a = "friends" THEN "UserController"
  ELSE NoCtl

\* the attributes every RESTResource has, whatever the subclass
InheritedKind(c, ctl, name) ==
  CASE name = "default" -> "unmarked"
    [] name = "REST_map" -> IF c = "mapped" THEN "unmarked" ELSE "falsy"
    [] OTHER -> "absent"

\* the sample application of the module's docstring
SampleKind(ctl, name) ==
  IF ctl = "UserController"
  THEN IF name \in {"index", "delete", "update", "add", "extra_action"}
       THEN "exposed" ELSE "absent"
  ELSE IF name \in {"index", "delete", "update"} THEN "exposed"
       ELSE IF name = "add" THEN "unmarked" ELSE "absent"

\* what getattr(self, name) finds, and how the attribute is marked
AttrKind(c, ctl, name) ==
  IF InheritedKind(c, ctl, name) # "absent" THEN InheritedKind(c, ctl, name)
  ELSE CASE c = "sample" -> SampleKind(ctl, name)
         [] c = "strict" -> SampleKind(ctl, name)
         [] c = "nested" ->
              IF ctl = "UserController" /\ name = "friends" THEN "exposed"
              ELSE SampleKind(ctl, name)
         [] c = "mapped" ->
              IF ctl = "UserController"
              THEN CASE name \in {"show", "touch"} -> "exposed"
                     [] name = "remove" -> "absent"
                     [] OTHER -> SampleKind(ctl, name)
              ELSE CASE name = "show" -> "markedFalse"
                     [] name = "remove" -> "unmarked"
                     [] OTHER -> SampleKind(ctl, name)
         [] c = "bare" ->
              IF ctl = "UserController"
              THEN CASE name = "add" -> "markedFalse"
                     [] name = "update" -> "unmarked"
                     [] name = "delete" -> "falsy"
                     [] name = "extra_action" -> "markedFalse"
                     [] OTHER -> "absent"
              ELSE "absent"

\* which REST_instantiate the class has: the sample's (try/except, None when
\* missing), the base class's, or an override that lets the lookup error out
InstMode(c, ctl) ==
  CASE c = "bare" /\ ctl = "PostController" -> "base"
    [] c = "strict" /\ ctl = "UserController" -> "raising"
    [] OTHER -> "sample"

\* which REST_create the class has: the sample's or the base class's
CreateMode(c, ctl) ==
  CASE c = "bare" -> "base"
    [] c = "strict" -> "base"
    [] OTHER -> "sample"

(***************************************************************************)
(* The hooks                                                               *)
(***************************************************************************)

HookResult(exc, res) == [exc |-> exc, res |-> res]

\* the model object an id names, seen from a controller whose parent is par
Lookup(ctl, id, par) ==
  IF ctl = "UserController" THEN Resource(ctl, id, "-") ELSE Resource(ctl, id, par.id)

\* self.REST_instantiate(atom)
REST_instantiate(c, ctl, id, par, st) ==
  CASE InstMode(c, ctl) = "base" -> HookResult("NotFound", NoneRes)
    [] InstMode(c, ctl) = "sample" ->
         IF ctl # Root /\ par = NoParent THEN HookResult("-", NoneRes)
         ELSE IF Lookup(ctl, id, par) \in st THEN HookResult("-", Lookup(ctl, id, par))
         ELSE HookResult("-", NoneRes)
    [] OTHER ->
         IF ctl # Root /\ par = NoParent THEN HookResult("AttributeError", NoneRes)
         ELSE IF Lookup(ctl, id, par) \in st THEN HookResult("-", Lookup(ctl, id, par))
         ELSE HookResult("LookupError", NoneRes)

\* self.REST_create(atom)
REST_create(c, ctl, id, par) ==
  CASE CreateMode(c, ctl) = "base" -> HookResult("NotFound", NoneRes)
    [] OTHER ->
         IF ctl # Root /\ par = NoParent THEN HookResult("AttributeError", NoneRes)
         ELSE HookResult("-", Lookup(ctl, id, par))

(***************************************************************************)
(* Handler lookup                                                          *)
(***************************************************************************)

\* `m and getattr(m, "expose_resource")` on an attribute that exists or is None
Probe(kind) ==
  CASE kind = "exposed" -> "call"
    [] kind = "unmarked" -> "AttributeError"
    [] OTHER -> "skip"

VerbName_fallsBack(c, ctl, m) ==
  IF REST_map(c, ctl, m) # NoName /\ AttrKind(c, ctl, REST_map(c, ctl, m)) = "exposed"
  THEN REST_map(c, ctl, m)
  ELSE REST_defaults(m)

\* the handler name REST_dispatch looks up for a method
VerbName(c, ctl, m) ==
  IF REST_map(c, ctl, m) # NoName THEN REST_map(c, ctl, m) ELSE REST_defaults(m)

VerbPlan_missingIsNotFound(c, ctl, m) ==
  IF VerbName(c, ctl, m) = NoName THEN "NotFound"
  ELSE IF Probe(AttrKind(c, ctl, VerbName(c, ctl, m))) = "call" THEN "call"
  ELSE "NotFound"

\* REST_dispatch up to the call of the handler: "call", or how it fails
VerbPlan(c, ctl, m) ==
  IF VerbName(c, ctl, m) = NoName THEN "NotFound"
  ELSE IF AttrKind(c, ctl, VerbName(c, ctl, m)) = "absent" THEN "HTTPError400"
  ELSE IF Probe(AttrKind(c, ctl, VerbName(c, ctl, m))) = "call" THEN "call"
  ELSE "NotFound"

\* the named-segment route of default() up to the call of the method
NamedPlan(c, ctl, a) ==
  IF Probe(AttrKind(c, ctl, a)) = "skip" THEN "NotFound"
  ELSE Probe(AttrKind(c, ctl, a))

\* REST_dispatch logs a warning before it raises HTTPError(status=400)
Warns(plan) == plan = "HTTPError400"

\* how an invoked handler can end: it returns, or it raises
HandlerEnds(plan) == IF plan = "call" THEN {"return"} \cup HandlerRaises ELSE {"-"}

\* the sample's delete handlers destroy the resource
HandlerEffect(name, res, how, st) ==
  IF name = "delete" /\ how = "return" THEN st \ {res} ELSE st

VerbOutcome_propagates(plan, how, v) ==
  IF plan = "call" THEN (IF how = "return" THEN Returned(v) ELSE Raised(how))
  ELSE Raised(plan)

\* what REST_dispatch gives the caller
VerbOutcome(plan, how, v) ==
  IF plan = "call" THEN (IF how = "return" THEN Returned(v) ELSE Raised("NotFound"))
  ELSE Raised(plan)

\* what the named-segment route gives the caller
NamedOutcome(plan, how, v) ==
  IF plan = "call" THEN (IF how = "return" THEN Returned(v) ELSE Raised(how))
  ELSE Raised(plan)

\* the builtin list(**params)
ListOutcome(params) == IF params = {} THEN Returned(EmptyList) ELSE Raised("TypeError")

(***************************************************************************)
(* Requests                                                                *)
(***************************************************************************)

SegAt(i) == IF i % 2 = 0 THEN Names ELSE IF i = 1 THEN UserIds ELSE PostIds

RECURSIVE PathsOfLen(_)
PathsOfLen(n) ==
  IF n = 0 THEN {<<>>} ELSE {Append(p, x) : p \in PathsOfLen(n - 1), x \in SegAt(n)}

Paths == UNION {PathsOfLen(n) : n \in 0..MaxPathLen}

Idle ==
  [pc |-> "idle", method |-> "GET", path |-> <<>>, params |-> {}, self |-> Root,
   depth |-> 0, vpath |-> <<>>, kw |-> {}, atom |-> "-", resource |-> NoneRes,
   up |-> NoParent, via |-> "-", target |-> NoName, calls |-> <<>>, outcome |-> Pending]

\* the framework calls root.default(*vpath, **params)
NewRequest(m, p, ps) ==
  [Idle EXCEPT !.pc = "default", !.method = m, !.path = p, !.params = ps,
               !.vpath = p, !.kw = ps]

\* a response kept to compare a later one with: the request, the resources
\* of the application when it was given, and what was given
NoEarlier == [kept |-> FALSE, path |-> <<>>, params |-> {}, snap |-> {}, outcome |-> Pending]

InitStore ==
  {Resource("UserController", "bob", "-"), Resource("PostController", "p1", "bob")}

Init ==
  /\ cfg \in Configs
  /\ store = InitStore
  /\ parent = [c \in Controllers |-> NoParent]
  /\ writer = [c \in Controllers |-> "-"]
  /\ req = [s \in Slots |-> Idle]
  /\ earlier = NoEarlier

Busy(s) == req[s].pc \notin {"idle", "done"}

Log(r, e) == Append(r.calls, e)

Finish(r, e, o) == [r EXCEPT !.pc = "done", !.calls = Log(r, e), !.outcome = o]

\* a request arrives while no other is being served
Start(s) ==
  /\ req[s].pc = "idle"
  /\ \A t \in Slots : ~Busy(t)
  /\ \E m \in Methods, p \in Paths, ps \in ParamSets :
       req' = [req EXCEPT ![s] = NewRequest(m, p, ps)]
  /\ UNCHANGED <<earlier, cfg, store, parent, writer>>

\* default() has returned or raised: the framework sends the response
Respond(s) ==
  /\ req[s].pc = "done"
  /\ req' = [req EXCEPT ![s] = Idle]
  /\ UNCHANGED <<earlier, cfg, store, parent, writer>>

\* default() with an empty vpath: return list(**params)
ListFallback(s) ==
  LET r == req[s] IN
  /\ r.pc = "default"
  /\ r.vpath = <<>>
  /\ req' = [req EXCEPT ![s] =
       [Finish(r, Event("list", r.self, "list", "-", NoneRes, <<>>, r.kw,
                        parent[r.self], r.up, writer[r.self],
                        IF ListOutcome(r.kw).kind = "return" THEN "return"
                        ELSE ListOutcome(r.kw).exc),
               ListOutcome(r.kw))
        EXCEPT !.via = "list"]]
  /\ UNCHANGED <<earlier, cfg, store, parent, writer>>

ParentSeen_shared(ctl) == parent[Root]

\* self.parent as a hook of the controller reads it
ParentSeen(ctl) == parent[ctl]

Propagate_swallowed(exc) == Raised("NotFound")

\* an exception of a hook is not caught by default()
Propagate(exc) == Raised(exc)

CreatesOnMiss_always(m) == TRUE

CreatesOnMiss_never(m) == FALSE

CreatesOnMiss_post(m) == m = "POST"

CreatesOnMiss_writes(m) == m \in {"PUT", "POST"}

\* `cherrypy.request.method == "PUT"`: the method that may create the resource
CreatesOnMiss(m) == m = "PUT"

\* default(): pop the id, REST_instantiate it, and decide on None
Instantiate(s) ==
  LET r == req[s]
      atom == Head(r.vpath)
      got == REST_instantiate(cfg, r.self, atom, ParentSeen(r.self), store)
      e == Event("REST_instantiate", r.self, "-", atom, got.res, <<>>, r.kw,
                 ParentSeen(r.self), r.up, writer[r.self],
                 IF got.exc = "-" THEN "return" ELSE got.exc)
      popped == [r EXCEPT !.vpath = Tail(r.vpath), !.atom = atom, !.resource = got.res]
  IN
  /\ r.pc = "default"
  /\ r.vpath # <<>>
  /\ req' = [req EXCEPT ![s] =
       IF got.exc # "-" THEN Finish(popped, e, Propagate(got.exc))
       ELSE IF got.res # NoneRes THEN [popped EXCEPT !.pc = "route", !.calls = Log(r, e)]
       ELSE IF CreatesOnMiss(r.method)
            THEN [popped EXCEPT !.pc = "create", !.calls = Log(r, e)]
       ELSE Finish(popped, e, Raised("NotFound"))]
  /\ UNCHANGED <<earlier, cfg, store, parent, writer>>

\* default(): resource = self.REST_create(atom)
Create(s) ==
  LET r == req[s]
      got == REST_create(cfg, r.self, r.atom, ParentSeen(r.self))
      e == Event("REST_create", r.self, "-", r.atom, got.res, <<>>, r.kw,
                 ParentSeen(r.self), r.up, writer[r.self],
                 IF got.exc = "-" THEN "return" ELSE got.exc)
  IN
  /\ r.pc = "create"
  /\ req' = [req EXCEPT ![s] =
       IF got.exc # "-" THEN Finish(r, e, Propagate(got.exc))
       ELSE [r EXCEPT !.pc = "route", !.resource = got.res, !.calls = Log(r, e)]]
  /\ store' = IF got.exc = "-" THEN store \cup {got.res} ELSE store
  /\ UNCHANGED <<earlier, cfg, parent, writer>>

GoesToChild_methodFirst(c, ctl, a) ==
  REST_children(c, ctl, a) # NoCtl /\ AttrKind(c, ctl, a) # "exposed"

\* `if a in self.REST_children`, tested before the method of that name
GoesToChild(c, ctl, a) == REST_children(c, ctl, a) # NoCtl

ParentAssigned_unset(resource) == NoParent

\* what default() assigns to the parent field of the child
ParentAssigned(resource) == resource

ChildArgs_unpopped(vpath, params) == [vpath |-> vpath, params |-> params]

\* the arguments default() passes on to the child's default()
ChildArgs(vpath, params) == [vpath |-> Tail(vpath), params |-> params]

\* default(): the next segment names a child: c.parent = resource; c.default(...)
Delegate(s) ==
  LET r == req[s]
      c == REST_children(cfg, r.self, Head(r.vpath))
      args == ChildArgs(r.vpath, r.kw)
      e == Event("child", c, Head(r.vpath), "-", r.resource, args.vpath, args.params,
                 parent[c], r.up, s, "-")
  IN
  /\ r.pc = "route"
  /\ r.vpath # <<>>
  /\ GoesToChild(cfg, r.self, Head(r.vpath))
  /\ parent' = [parent EXCEPT ![c] = ParentAssigned(r.resource)]
  /\ writer' = [writer EXCEPT ![c] = s]
  /\ req' = [req EXCEPT ![s] =
       [r EXCEPT !.pc = "default", !.self = c, !.depth = r.depth + 1,
                 !.vpath = args.vpath, !.kw = args.params, !.up = r.resource,
                 !.atom = "-", !.resource = NoneRes, !.calls = Log(r, e)]]
  /\ UNCHANGED <<earlier, cfg, store>>

NamedArgs_dropped(vpath) == <<>>

\* the positional arguments the named method gets after the resource
NamedArgs(vpath) == Tail(vpath)

\* default(): the next segment names no child: the method of that name
NamedRoute(s) ==
  LET r == req[s]
      a == Head(r.vpath)
      plan == NamedPlan(cfg, r.self, a)
      v == HandlerValue(r.self, a, r.resource, NamedArgs(r.vpath), r.kw)
  IN
  /\ r.pc = "route"
  /\ r.vpath # <<>>
  /\ ~GoesToChild(cfg, r.self, a)
  /\ \E how \in HandlerEnds(plan) :
       /\ req' = [req EXCEPT ![s] =
            [r EXCEPT !.pc = "done", !.vpath = <<>>, !.via = "named", !.target = a,
                      !.calls = IF plan = "call"
                                THEN Log(r, Event("handler", r.self, a, "-", r.resource,
                                                  NamedArgs(r.vpath), r.kw, parent[r.self],
                                                  r.up, writer[r.self], how))
                                ELSE r.calls,
                      !.outcome = NamedOutcome(plan, how, v)]]
       /\ store' = IF plan = "call" THEN HandlerEffect(a, r.resource, how, store) ELSE store
  /\ UNCHANGED <<earlier, cfg, parent, writer>>

\* default(): no segment is left: REST_dispatch(resource, **params)
VerbDispatch(s) ==
  LET r == req[s]
      name == VerbName(cfg, r.self, r.method)
      plan == VerbPlan(cfg, r.self, r.method)
      v == HandlerValue(r.self, name, r.resource, <<>>, r.kw)
  IN
  /\ r.pc = "route"
  /\ r.vpath = <<>>
  /\ \E how \in HandlerEnds(plan) :
       /\ req' = [req EXCEPT ![s] =
            [r EXCEPT !.pc = "done", !.via = "verb", !.target = name,
                      !.calls = IF plan = "call"
                                THEN Log(r, Event("handler", r.self, name, "-", r.resource,
                                                  <<>>, r.kw, parent[r.self], r.up,
                                                  writer[r.self], how))
                                ELSE IF Warns(plan)
                                THEN Log(r, Event("warning", r.self, name, "-", r.resource,
                                                  <<>>, r.kw, parent[r.self], r.up,
                                                  writer[r.self], "-"))
                                ELSE r.calls,
                      !.outcome = VerbOutcome(plan, how, v)]]
       /\ store' = IF plan = "call" THEN HandlerEffect(name, r.resource, how, store) ELSE store
  /\ UNCHANGED <<earlier, cfg, parent, writer>>

Step(s) ==
  \/ ListFallback(s)
  \/ Instantiate(s)
  \/ Create(s)
  \/ Delegate(s)
  \/ NamedRoute(s)
  \/ VerbDispatch(s)

\* one request after the other
Next == Start("r1") \/ Step("r1") \/ Respond("r1")

Spec == Init /\ [][Next]_vars

\* the worker thread serving a request goes on until default() has ended
SpecLive == Spec /\ WF_vars(Step("r1"))

(***************************************************************************)
(* Overlapping requests: two worker threads, one request each, on the      *)
(* sample application                                                      *)
(***************************************************************************)

OverlapMethods == {"GET", "PUT"}

OverlapNames == {"posts", "extra_action"}

OverlapPaths ==
  {p \in Paths : \A i \in 1..Len(p) : i % 2 = 0 => p[i] \in OverlapNames}

\* a request arrives, whatever the other worker is doing
Arrive(s) ==
  /\ req[s].pc = "idle"
  /\ \E m \in OverlapMethods, p \in OverlapPaths :
       req' = [req EXCEPT ![s] = NewRequest(m, p, {})]
  /\ UNCHANGED <<earlier, cfg, store, parent, writer>>

InitOverlap == Init /\ cfg = "sample"

NextOverlap == \E s \in Slots : Arrive(s) \/ Step(s)

SpecOverlap == InitOverlap /\ [][NextOverlap]_vars


(***************************************************************************)
(* Repeated requests: one worker thread serving one request after another, *)
(* a client keeping one GET response to compare a later one with           *)
(***************************************************************************)

RepeatMethods == {"GET", "PUT", "DELETE"}

RepeatNames == {"posts", "friends"}

RepeatConfigs == {"sample", "nested"}

RepeatPaths ==
  {p \in Paths : \A i \in 1..Len(p) : i % 2 = 0 => p[i] \in RepeatNames}

\* every handler the request invoked returned: none of them failed on its own
HandlersReturned(r) ==
  \A i \in 1..Len(r.calls) : r.calls[i].op = "handler" => r.calls[i].how = "return"

\* the next request arrives after the response to the one before; a PUT
\* addresses a user
Again(s) ==
  /\ req[s].pc = "idle"
  /\ \E m \in RepeatMethods, p \in RepeatPaths :
       /\ m = "PUT" => Len(p) = 1
       /\ req' = [req EXCEPT ![s] = NewRequest(m, p, {})]
  /\ UNCHANGED <<earlier, cfg, store, parent, writer>>

\* the response to a GET is sent and the client keeps it
Keep(s) ==
  /\ req[s].pc = "done"
  /\ req[s].method = "GET"
  /\ HandlersReturned(req[s])
  /\ ~earlier.kept
  /\ earlier' = [kept |-> TRUE, path |-> req[s].path, params |-> req[s].params,
                 snap |-> store, outcome |-> req[s].outcome]
  /\ req' = [req EXCEPT ![s] = Idle]
  /\ UNCHANGED <<cfg, store, parent, writer>>

InitRepeat == Init /\ cfg \in RepeatConfigs

NextRepeat == Again("r1") \/ Step("r1") \/ Respond("r1") \/ Keep("r1")

SpecRepeat == InitRepeat /\ [][NextRepeat]_vars

(***************************************************************************)
(* Properties                                                              *)
(***************************************************************************)

Calls(r, op) == {i \in 1..Len(r.calls) : r.calls[i].op = op}

Hooks == {"REST_instantiate", "REST_create"}

Verbs == {"GET", "POST", "PUT", "DELETE"}

\* the default mapping as the documentation states it
DocumentedName(m) ==
  CASE m = "GET" -> "index"
    [] m = "POST" -> "add"
    [] m = "PUT" -> "update"
    [] m = "DELETE" -> "delete"

\* the request was for [id] and REST_instantiate(id) answered res
SingleSegment(r) ==
  /\ r.pc = "done"
  /\ Len(r.path) = 1
  /\ Len(r.calls) >= 1
  /\ r.calls[1].op = "REST_instantiate"
  /\ r.calls[1].arg = r.path[1]
  /\ r.calls[1].how = "return"

C1_Case(r) ==
  /\ SingleSegment(r)
  /\ r.calls[1].res # NoneRes
  /\ r.method \in Verbs
  /\ REST_map(cfg, Root, r.method) = NoName
  /\ AttrKind(cfg, Root, DocumentedName(r.method)) = "exposed"

C2_Case(r) ==
  /\ SingleSegment(r)
  /\ r.calls[1].res = NoneRes
  /\ r.method = "PUT"

\* REST_create(id) is called exactly once, right after REST_instantiate
C2_CreatedOnce(r) ==
  /\ Len(r.calls) >= 2
  /\ r.calls[2].op = "REST_create"
  /\ r.calls[2].arg = r.path[1]
  /\ Calls(r, "REST_create") = {2}

\* update(resource, **params) is called after REST_create with the object
\* REST_create returned, and its result is the response
C2_ThenUpdate(r) ==
  /\ Len(r.calls) = 3
  /\ r.calls[3].op = "handler"
  /\ r.calls[3].name = "update"
  /\ r.calls[3].res = r.calls[2].res
  /\ r.calls[3].params = r.params
  /\ r.calls[3].how = "return" =>
       r.outcome = Returned(HandlerValue(Root, "update", r.calls[2].res, <<>>, r.params))

C3_UnresolvedIsNotFound ==
  \A s \in Slots :
    LET r == req[s] IN
    \A i \in Calls(r, "REST_instantiate") :
      ( /\ r.calls[i].how = "return"
        /\ r.calls[i].res = NoneRes
        /\ r.method \in {"GET", "POST", "DELETE"} ) =>
          /\ r.pc = "done"
          /\ i = Len(r.calls)
          /\ r.outcome = Raised("NotFound")
          /\ Calls(r, "REST_create") = {}
          /\ Calls(r, "handler") = {}

C3_Witness ==
  \E s \in Slots :
    /\ req[s].pc = "done"
    /\ req[s].method = "DELETE"
    /\ Len(req[s].path) = 3
    /\ Len(req[s].calls) = 1
    /\ req[s].calls[1].op = "REST_instantiate"
    /\ req[s].calls[1].res = NoneRes
    /\ req[s].outcome.kind = "NotFound"

\* the calls of r made on the child that call i entered, before a deeper child
Under(r, i) ==
  {j \in (i + 1)..Len(r.calls) :
     \A k \in (i + 1)..j : r.calls[k].op # "child"}

\* how many children deep call i is
Depth(r, i) == Cardinality({k \in 1..i : r.calls[k].op = "child"})

\* C4: with requests served one after the other, a child's default() runs
\* with the child's parent field equal to the resource this request resolved
\* from the id before the child's name, whatever an earlier request left in
\* the field, and it is given the segments after the child's name and the
\* request's params.
C4_ChildGetsOwnParent ==
  \A s \in Slots :
    LET r == req[s] IN
    /\ (r.depth > 0 /\ r.pc \in {"default", "create"}) => parent[r.self] = r.up
    /\ \A i \in Calls(r, "child") :
         /\ i > 1
         /\ r.calls[i - 1].op \in Hooks
         /\ r.calls[i].res = r.calls[i - 1].res
         /\ r.calls[i].name = r.path[2 * Depth(r, i)]
         /\ r.calls[i].rest = SubSeq(r.path, 2 * Depth(r, i) + 1, Len(r.path))
         /\ r.calls[i].params = r.params
         /\ \A j \in Under(r, i) :
              /\ r.calls[j].ctl = r.calls[i].ctl
              /\ r.calls[j].seen = r.calls[i].res
              /\ r.calls[j].up = r.calls[i].res

C4_Witness ==
  \E s \in Slots :
    \E i \in Calls(req[s], "child") :
      /\ req[s].calls[i].seen \notin {NoParent, req[s].calls[i].res}
      /\ req[s].calls[i].rest # <<>>
      /\ Len(req[s].calls) > i
      /\ req[s].calls[i + 1].op = "REST_instantiate"
      /\ req[s].calls[i + 1].seen = req[s].calls[i].res

\* C5: with two requests overlapping, a call on the child can find in the
\* parent field a resource other than the one its own request resolved; when
\* it does, the field was written by the other request, with the resource
\* that request resolved on its way to the same child.
C5_StaleParentIsTheOtherRequests ==
  \A s \in Slots :
    LET r == req[s] IN
    \A i \in Calls(r, "child") :
      \A j \in Under(r, i) :
        r.calls[j].seen # r.calls[i].res =>
          /\ r.calls[j].by \in Slots \ {s}
          /\ \E k \in Calls(req[r.calls[j].by], "child") :
               /\ req[r.calls[j].by].calls[k].ctl = r.calls[i].ctl
               /\ req[r.calls[j].by].calls[k].res = r.calls[j].seen

C5_Witness ==
  \E s \in Slots :
    \E i \in Calls(req[s], "child") :
      /\ Len(req[s].calls) > i
      /\ req[s].calls[i + 1].op = "REST_instantiate"
      /\ req[s].calls[i + 1].seen # req[s].calls[i].res
      /\ req[s].calls[i + 1].seen # NoParent


\* the attribute is a method, as opposed to a class attribute such as REST_map
IsMethod(name) == name # "REST_map"

\* the marker is missing from the method, or false
NotExposed(kind) == kind \in {"unmarked", "markedFalse"}

\* C6 as claimed: a request that reaches a method without a true
\* expose_resource marker, through its verb or through a path segment of its
\* name, invokes no handler and ends with NotFound.
C6_AsClaimed ==
  \A s \in Slots :
    LET r == req[s] IN
    ( /\ r.pc = "done"
      /\ r.via \in {"verb", "named"}
      /\ r.target # NoName
      /\ IsMethod(r.target)
      /\ NotExposed(AttrKind(cfg, r.self, r.target)) ) =>
        /\ Calls(r, "handler") = {}
        /\ r.outcome = Raised("NotFound")

\* the request is for [..., id, segment, rest...], id resolved (or was
\* created), and segment names no child but an exposed method
C7_Case(r) ==
  /\ r.pc = "done"
  /\ Len(r.path) >= 2 * r.depth + 2
  /\ r.resource # NoneRes
  /\ REST_children(cfg, r.self, r.path[2 * r.depth + 2]) = NoCtl
  /\ AttrKind(cfg, r.self, r.path[2 * r.depth + 2]) = "exposed"

\* C7: for [id, segment, rest...] with id resolved and segment the name of an
\* exposed method that is no child, default() calls method(resource, *rest,
\* **params) once and no other handler, whatever the HTTP method, and what
\* the method returns is the response.
C7_NamedSegmentInvokesMethod ==
  \A s \in Slots :
    LET r == req[s]
        n == Len(r.calls)
        a == r.path[2 * r.depth + 2]
        rest == SubSeq(r.path, 2 * r.depth + 3, Len(r.path))
    IN
    C7_Case(r) =>
      /\ r.via = "named"
      /\ r.target = a
      /\ Calls(r, "handler") = {n}
      /\ r.calls[n - 1].op \in Hooks
      /\ r.calls[n].ctl = r.self
      /\ r.calls[n].name = a
      /\ r.calls[n].res = r.calls[n - 1].res
      /\ r.calls[n].rest = rest
      /\ r.calls[n].params = r.params
      /\ r.calls[n].how = "return" =>
           r.outcome = Returned(HandlerValue(r.self, a, r.calls[n - 1].res, rest, r.params))
      /\ r.calls[n].how # "return" => r.outcome = Raised(r.calls[n].how)

C7_Witness ==
  \E s \in Slots :
    /\ C7_Case(req[s])
    /\ req[s].method = "DELETE"
    /\ Len(req[s].path) = 3
    /\ req[s].outcome.kind = "return"
    /\ req[s].outcome.value.rest # <<>>
    /\ req[s].outcome.value.params # {}

\* the calls that produce a response: the handlers and the listing fallback
Responders(r) == Calls(r, "handler") \cup Calls(r, "list")

\* C8 as claimed: a request ends either with the result of the one handler
\* it invoked, or with NotFound or BadRequest and no handler invoked.
C8_AsClaimed ==
  \A s \in Slots :
    LET r == req[s] IN
    r.pc = "done" =>
      \/ /\ r.outcome.kind = "return"
         /\ Cardinality(Responders(r)) = 1
         /\ \A i \in Responders(r) : r.calls[i].how = "return"
      \/ /\ r.outcome.kind \in {"NotFound", "BadRequest"}
         /\ Responders(r) = {}

\* C9 as claimed: with an empty path default() calls the listing fallback
\* with the params, calls no hook and no handler, and returns what the
\* fallback produces, whatever the params and the method.
C9_AsClaimed ==
  \A s \in Slots :
    LET r == req[s] IN
    (r.pc = "done" /\ r.path = <<>>) =>
      /\ Len(r.calls) = 1
      /\ r.calls[1].op = "list"
      /\ r.calls[1].params = r.params
      /\ r.outcome.kind = "return"

\* C10 as claimed: when REST_instantiate raises, a PUT goes on to
\* REST_create(id), any other method ends with NotFound, and no other error
\* leaves default().
C10_AsClaimed ==
  \A s \in Slots :
    LET r == req[s] IN
    \A i \in Calls(r, "REST_instantiate") :
      r.calls[i].how # "return" =>
        /\ r.method = "PUT" =>
             /\ Len(r.calls) > i
             /\ r.calls[i + 1].op = "REST_create"
             /\ r.calls[i + 1].arg = r.calls[i].arg
        /\ r.method # "PUT" => r.outcome = Raised("NotFound")
        /\ r.outcome.kind # "error"

\* C10: when REST_instantiate raises, default() does not catch it: the
\* request ends there with that exception, whatever the method, and
\* REST_create is not called for the id; the REST_instantiate of the base
\* class raises NotFound.
C10_LookupFailurePropagates ==
  \A s \in Slots :
    LET r == req[s] IN
    \A i \in Calls(r, "REST_instantiate") :
      r.calls[i].how # "return" =>
        /\ r.pc = "done"
        /\ i = Len(r.calls)
        /\ r.outcome = Raised(r.calls[i].how)
        /\ InstMode(cfg, r.calls[i].ctl) = "base" => r.outcome.kind = "NotFound"

C10_Witness ==
  \E s \in Slots :
    /\ req[s].pc = "done"
    /\ req[s].method = "PUT"
    /\ Len(req[s].calls) = 1
    /\ req[s].calls[1].op = "REST_instantiate"
    /\ req[s].calls[1].how = "LookupError"
    /\ req[s].outcome.kind = "error"


\* what is left of default() for a request: the segments not yet consumed,
\* and the place within the current level
Rank(r) ==
  3 * Len(r.vpath) +
    (CASE r.pc = "default" -> 3 [] r.pc = "create" -> 2 [] r.pc = "route" -> 1 [] OTHER -> 0)

\* the segments still to walk are the end of the request's path
IsSuffix(r) == r.vpath = SubSeq(r.path, Len(r.path) - Len(r.vpath) + 1, Len(r.path))

\* every request that is being served ends
C11_Terminates == \A s \in Slots : Busy(s) ~> req[s].pc = "done"

\* each step of a request consumes path or ends the level; entering a child
\* strictly shortens the rest of the path, which stays a suffix of the path
C11_WalkDescends ==
  [][\A s \in Slots :
       (Busy(s) /\ req'[s] # req[s]) =>
         /\ Rank(req'[s]) < Rank(req[s])
         /\ req'[s].pc # "done" => IsSuffix(req'[s])
         /\ req'[s].depth > req[s].depth => Len(req'[s].vpath) < Len(req[s].vpath)]_vars

\* the request ended as listed: in a handler invocation, in the listing
\* fallback, or with NotFound or BadRequest (hooks that raise set aside)
C11_EndsAsListed ==
  \A s \in Slots :
    LET r == req[s] IN
    (r.pc = "done" /\ \A i \in Calls(r, "REST_instantiate") \cup Calls(r, "REST_create") :
                        r.calls[i].how = "return") =>
      \/ Calls(r, "handler") # {}
      \/ Calls(r, "list") # {}
      \/ r.outcome.kind \in {"NotFound", "BadRequest"}

\* C11 as claimed: every request terminates, whatever the path and the child
\* registry (a controller that is its own child included): the walk strictly
\* shortens the rest of the path at each step into a child and never goes
\* back, and it ends in a handler invocation, the listing fallback, or a
\* NotFound or BadRequest failure.
C11_AsClaimed == C11_Terminates /\ C11_WalkDescends /\ []C11_EndsAsListed

\* a request went through the controller that is its own child and ended
C11_SelfChildWalked ==
  \E s \in Slots :
    \E i \in Calls(req[s], "child") :
      /\ req[s].pc = "done"
      /\ req[s].calls[i].ctl = Root
      /\ req[s].calls[i].name = "friends"


\* the request ended in REST_dispatch: its last id resolved (or was created)
\* and no segment was left
VerbCase(r) ==
  /\ r.pc = "done"
  /\ r.resource # NoneRes
  /\ Len(r.path) = 2 * r.depth + 1

\* the method is a key of the controller's REST_map
Overridden(r) == REST_map(cfg, r.self, r.method) # NoName

\* C12: when the method is a key of REST_map, verb dispatch looks up the
\* handler REST_map names and no other: the REST_defaults handler of the
\* method is not invoked, also when the override is missing (BadRequest), not
\* exposed or raising (NotFound); REST_defaults decides only the methods
\* that are no key of REST_map.
C12_OverrideOnly ==
  \A s \in Slots :
    LET r == req[s]
        o == REST_map(cfg, r.self, r.method)
    IN
    VerbCase(r) =>
      /\ r.via = "verb"
      /\ Overridden(r) =>
           /\ r.target = o
           /\ \A i \in Calls(r, "handler") : r.calls[i].name = o
           /\ AttrKind(cfg, r.self, o) = "absent" =>
                r.outcome.kind = "BadRequest" /\ Calls(r, "handler") = {}
           /\ AttrKind(cfg, r.self, o) \in {"falsy", "unmarked", "markedFalse"} =>
                r.outcome.kind = "NotFound" /\ Calls(r, "handler") = {}
           /\ AttrKind(cfg, r.self, o) = "exposed" =>
                /\ Cardinality(Calls(r, "handler")) = 1
                /\ r.outcome.kind \in {"return", "NotFound"}
      /\ (~Overridden(r) /\ r.method \in Verbs) =>
           /\ r.target = DocumentedName(r.method)
           /\ \A i \in Calls(r, "handler") : r.calls[i].name = DocumentedName(r.method)

\* a DELETE whose override is missing while the class has an exposed delete
C12_Witness ==
  \E s \in Slots :
    /\ VerbCase(req[s])
    /\ Overridden(req[s])
    /\ req[s].method = "DELETE"
    /\ AttrKind(cfg, req[s].self, "delete") = "exposed"
    /\ AttrKind(cfg, req[s].self, REST_map(cfg, req[s].self, "DELETE")) = "absent"
    /\ req[s].outcome.kind = "BadRequest"


\* the request repeats the kept GET and the resources are those of then
Repeats(r) ==
  /\ earlier.kept
  /\ r.pc = "done"
  /\ r.method = "GET"
  /\ r.path = earlier.path
  /\ r.params = earlier.params
  /\ HandlersReturned(r)
  /\ store = earlier.snap

\* C13: a GET of a path answers what an earlier GET of the same path
\* answered when the resources of the application are the same and the
\* handlers are pure reads, whatever requests were served in between.
C13_RepeatedGetSameResult ==
  \A s \in Slots : Repeats(req[s]) => req[s].outcome = earlier.outcome

\* a GET through a child dispatcher repeated after another request has passed
\* another parent to that child
C13_Witness ==
  \E s \in Slots :
    LET r == req[s] IN
    /\ Repeats(r)
    /\ Len(r.path) = 3
    /\ r.outcome.kind = "return"
    /\ \E i \in Calls(r, "child") : r.calls[i].seen \notin {NoParent, r.calls[i].res}


\* the handler name the mappings give the method: REST_map first, then
\* REST_defaults
MappedName(r) ==
  IF Overridden(r) THEN REST_map(cfg, r.self, r.method)
  ELSE IF r.method \in Verbs THEN DocumentedName(r.method)
  ELSE NoName

\* C14: in verb dispatch, a method mapped to a name that is no attribute of
\* the dispatcher ends in BadRequest, a warning logged last and no handler
\* invoked; a method that is a key of neither mapping ends in NotFound, no
\* handler invoked and nothing logged.
C14_VerbFailureClasses ==
  \A s \in Slots :
    LET r == req[s]
        n == Len(r.calls)
    IN
    VerbCase(r) =>
      /\ (MappedName(r) # NoName /\ AttrKind(cfg, r.self, MappedName(r)) = "absent") =>
           /\ r.outcome = Raised("HTTPError400")
           /\ r.outcome.kind = "BadRequest"
           /\ Calls(r, "handler") = {}
           /\ Calls(r, "warning") = {n}
      /\ MappedName(r) = NoName =>
           /\ r.outcome = Raised("NotFound")
           /\ Calls(r, "handler") = {}
           /\ Calls(r, "warning") = {}
      /\ Calls(r, "warning") # {} =>
           MappedName(r) # NoName /\ AttrKind(cfg, r.self, MappedName(r)) = "absent"

\* a GET on a dispatcher without index: BadRequest after the warning
C14_Witness ==
  \E s \in Slots :
    /\ VerbCase(req[s])
    /\ ~Overridden(req[s])
    /\ req[s].method = "GET"
    /\ AttrKind(cfg, req[s].self, "index") = "absent"
    /\ req[s].outcome.kind = "BadRequest"
    /\ Calls(req[s], "warning") # {}

\* a PATCH that is a key of neither mapping
C14_UnmappedMethod ==
  \E s \in Slots :
    /\ VerbCase(req[s])
    /\ MappedName(req[s]) = NoName
    /\ req[s].outcome.kind = "NotFound"

\* C15: an exception of a verb handler, whatever it is, does not leave
\* REST_dispatch: the request ends in NotFound.
C15_HandlerFailureIsNotFound ==
  \A s \in Slots :
    LET r == req[s] IN
    (r.pc = "done" /\ r.via = "verb") =>
      /\ \A i \in Calls(r, "handler") :
           /\ AttrKind(cfg, r.calls[i].ctl, r.calls[i].name) = "exposed"
           /\ r.calls[i].how # "return" => r.outcome = Raised("NotFound")
      /\ r.outcome.kind \in {"return", "NotFound", "BadRequest"}
      /\ r.outcome.kind = "BadRequest" => Calls(r, "handler") = {}

\* a verb handler raised a redirect and the request ended in NotFound
C15_Witness ==
  \E s \in Slots :
    LET r == req[s] IN
    /\ r.pc = "done"
    /\ r.via = "verb"
    /\ \E i \in Calls(r, "handler") : r.calls[i].how = "HTTPRedirect"
    /\ r.outcome.kind = "NotFound"


\* the request is for [..., id, segment, rest...], id resolved (or was
\* created), and segment names neither a child nor an exposed method
C16_Case(r) ==
  /\ r.pc = "done"
  /\ Len(r.path) >= 2 * r.depth + 2
  /\ r.resource # NoneRes
  /\ REST_children(cfg, r.self, r.path[2 * r.depth + 2]) = NoCtl
  /\ AttrKind(cfg, r.self, r.path[2 * r.depth + 2]) # "exposed"

\* C16 as claimed: for [id, segment, rest...] with id resolved and segment
\* neither a key of REST_children nor the name of an exposed method (absent,
\* no method, or without the marker, as 'default'), default() ends in
\* NotFound and invokes nothing.
C16_AsClaimed ==
  \A s \in Slots :
    C16_Case(req[s]) =>
      /\ Calls(req[s], "handler") = {}
      /\ req[s].outcome = Raised("NotFound")

\* what holds of such a segment: nothing is invoked, and the request ends in
\* NotFound unless the attribute is truthy and has no marker at all
C16_NothingInvoked ==
  \A s \in Slots :
    LET r == req[s] IN
    C16_Case(r) =>
      /\ r.via = "named"
      /\ Calls(r, "handler") = {}
      /\ AttrKind(cfg, r.self, r.path[2 * r.depth + 2]) # "unmarked" =>
           r.outcome = Raised("NotFound")
      /\ AttrKind(cfg, r.self, r.path[2 * r.depth + 2]) = "unmarked" =>
           r.outcome = Raised("AttributeError")


\* call i of the request is REST_instantiate returning None
Missed(r, i) ==
  /\ r.calls[i].op = "REST_instantiate"
  /\ r.calls[i].how = "return"
  /\ r.calls[i].res = NoneRes

\* C17: at every level of the walk REST_create(id) is called only under PUT
\* and only right after REST_instantiate(id) of the same dispatcher returned
\* None: never after the id resolved, and at most once for a segment.
C17_CreateOnlyOnPutMiss ==
  \A s \in Slots :
    LET r == req[s] IN
    /\ r.pc = "create" =>
         /\ r.method = "PUT"
         /\ r.calls # <<>>
         /\ Missed(r, Len(r.calls))
         /\ r.calls[Len(r.calls)].arg = r.atom
         /\ r.calls[Len(r.calls)].ctl = r.self
    /\ \A i \in Calls(r, "REST_create") :
         /\ r.method = "PUT"
         /\ i > 1
         /\ Missed(r, i - 1)
         /\ r.calls[i - 1].ctl = r.calls[i].ctl
         /\ r.calls[i - 1].arg = r.calls[i].arg
         /\ r.calls[i].arg = r.path[2 * Depth(r, i) + 1]
         /\ \A j \in Calls(r, "REST_create") : Depth(r, j) = Depth(r, i) => j = i
    /\ \A i \in Calls(r, "REST_instantiate") :
         (r.calls[i].res # NoneRes /\ i < Len(r.calls)) =>
           r.calls[i + 1].op # "REST_create"

\* a PUT that created at two levels, and resolved nothing
C17_Witness ==
  \E s \in Slots :
    LET r == req[s] IN
    /\ r.pc = "done"
    /\ Cardinality(Calls(r, "REST_create")) = 2
    /\ Cardinality(Calls(r, "REST_instantiate")) = 2

\* C18: under PUT an id that did not resolve is created before anything
\* else of the path is looked at, so what was created stays created when
\* the request fails afterwards; the creations follow the path, the parent
\* before the child, the child under the parent just created.
C18_ParentCreatedFirst ==
  \A s \in Slots :
    LET r == req[s] IN
    r.method = "PUT" =>
      /\ \A i \in Calls(r, "REST_instantiate") :
           Missed(r, i) =>
             /\ i = Len(r.calls) => r.pc = "create"
             /\ i < Len(r.calls) =>
                  /\ r.calls[i + 1].op = "REST_create"
                  /\ r.calls[i + 1].ctl = r.calls[i].ctl
                  /\ r.calls[i + 1].arg = r.calls[i].arg
      /\ \A j \in Calls(r, "REST_create") :
           /\ r.calls[j].how = "return" => r.calls[j].res \in store
           /\ r.calls[j].arg = r.path[2 * Depth(r, j) + 1]
           /\ \A k \in Calls(r, "REST_create") :
                k < j =>
                  /\ Depth(r, k) < Depth(r, j)
                  /\ r.calls[k].how = "return"
           /\ \A k \in Calls(r, "child") :
                (k < j /\ Depth(r, k) = Depth(r, j)) =>
                  /\ r.calls[k - 1].op \in Hooks
                  /\ r.calls[j].seen = r.calls[k - 1].res

\* a PUT that created the parent and then failed on the next segment
C18_Witness ==
  \E s \in Slots :
    LET r == req[s] IN
    /\ r.pc = "done"
    /\ r.method = "PUT"
    /\ Len(r.path) >= 2
    /\ r.outcome.kind # "return"
    /\ Calls(r, "handler") = {}
    /\ \E j \in Calls(r, "REST_create") :
         /\ Depth(r, j) = 0
         /\ r.calls[j].res \in store \ InitStore

\* a PUT that created parent and child and then failed in the child's verb
\* dispatch
C18_BothCreatedThenFailed ==
  \E s \in Slots :
    LET r == req[s] IN
    /\ r.pc = "done"
    /\ r.method = "PUT"
    /\ r.via = "verb"
    /\ r.outcome.kind \in {"NotFound", "BadRequest"}
    /\ Cardinality({j \in Calls(r, "REST_create") : r.calls[j].res \in store \ InitStore}) = 2


\* the segment is a key of REST_children and the name of an exposed method
\* of the same dispatcher
ChildAndMethod(ctl, a) ==
  REST_children(cfg, ctl, a) # NoCtl /\ AttrKind(cfg, ctl, a) = "exposed"

\* C19: when the segment after a resolved id is a key of REST_children and
\* the name of an exposed method of the same dispatcher, the request goes to
\* the child with the resolved resource as its parent, and the method of
\* that name is not invoked.
C19_ChildRegistryWins ==
  \A s \in Slots :
    LET r == req[s] IN
    /\ \A i \in Calls(r, "handler") :
         REST_children(cfg, r.calls[i].ctl, r.calls[i].name) = NoCtl
    /\ \A i \in 1..Len(r.calls) :
         ( /\ r.calls[i].op \in Hooks
           /\ r.calls[i].how = "return"
           /\ r.calls[i].res # NoneRes
           /\ Len(r.path) >= 2 * Depth(r, i) + 2
           /\ ChildAndMethod(r.calls[i].ctl, r.path[2 * Depth(r, i) + 2]) ) =>
             /\ i = Len(r.calls) => r.pc = "route"
             /\ i < Len(r.calls) =>
                  /\ r.calls[i + 1].op = "child"
                  /\ r.calls[i + 1].name = r.path[2 * Depth(r, i) + 2]
                  /\ r.calls[i + 1].ctl =
                       REST_children(cfg, r.calls[i].ctl, r.path[2 * Depth(r, i) + 2])
                  /\ r.calls[i + 1].res = r.calls[i].res
                  /\ \A j \in Calls(r, "handler") :
                       j > i => (Depth(r, j) > Depth(r, i) /\ r.calls[j].ctl = r.self)

\* a request through 'friends', child and exposed method of UserController,
\* answered by the child's handler
C19_Witness ==
  \E s \in Slots :
    LET r == req[s] IN
    /\ r.pc = "done"
    /\ r.outcome.kind = "return"
    /\ \E i \in Calls(r, "child") :
         /\ r.calls[i].name = "friends"
         /\ ChildAndMethod(Root, "friends")
         /\ \E j \in Calls(r, "handler") : j > i

====
